---- MODULE Spec2Model ----
(***************************************************************************)
(* Model of the ST25DVXXX / AT24Cxx EEPROM driver                          *)
(* (drivers/st25dvxxx/st25dvxxx.c) and of the tinyUSB thread shim          *)
(* (pkg/tinyusb/contrib/tinyusb.c).                                        *)
(*                                                                         *)
(* A caller initialises the handle and runs the public operations, the    *)
(* write-protect calls or the block-storage adapter against an I2C bus, a  *)
(* GPIO line and a simulated chip; a second caller on the same bus is a    *)
(* second thread.  A step of the model is either the entry of a public     *)
(* operation (bounds check, i2c_acquire, set-up of the first transaction), *)
(* one i2c_read_regs / i2c_write_regs call together with the driver code   *)
(* that follows it up to the next bus call or the return, one              *)
(* xtimer_usleep of the poll loop, or the caller taking the result.        *)
(*                                                                         *)
(* Spec runs the driver on a table of devices, SpecPoll the poll loop at   *)
(* both ends of max_polls, SpecTwo two threads on one bus, SpecDev the     *)
(* devices st25dvxxx_defines.h defines with their own constants, SpecUsb   *)
(* tinyusb_setup and the tinyUSB thread in every build.                    *)
(*                                                                         *)
(* uint32_t and size_t (an ILP32 target) are 32 bits wide.  A 32-bit value *)
(* is a pair <<high half-word, low half-word>>, because the arithmetic of  *)
(* the bounds check and of the chunk loops wraps at 2^32.                  *)
(***************************************************************************)
EXTENDS Integers, Sequences, FiniteSets, TLC

(***************************************************************************)
(* Bounds of the model                                                     *)
(***************************************************************************)
\* max_polls of the handle is MaxPollsCfg, and ranges over 0..MaxPollsCfg and
\* 255 where the poll loop is examined
MaxPollsCfg == 2
\* the lengths passed to an operation are 0, 1, 6, MaxLen and
\* ST25DVXXX_SET_BUF_SIZE + MaxLen
MaxLen == 12
\* PERIPH_I2C_MAX_BYTES_PER_FRAME of the build that defines it
FrameBytes == 4
\* st25dvxxx_erase is called on devices of at most MaxErase bytes
MaxErase == 256
\* _write and _read_max are followed through MaxChunks transactions of one
\* operation
MaxChunks == 64
\* the calls of tud_task and of tuh_task are counted up to MaxTasks, and the
\* last MaxTrace calls of the tinyUSB thread are kept
MaxTasks == 2
MaxTrace == 3

(***************************************************************************)
(* 32-bit and 8-bit machine arithmetic                                     *)
(***************************************************************************)
H == 65536
Byte == 256

U32(n) == <<n \div H, n % H>>
Val32(a) == a[1] * H + a[2]
Add32(a, b) == LET lo == a[2] + b[2]
               IN  <<(a[1] + b[1] + (lo \div H)) % H, lo % H>>
Sub32(a, b) == LET lo == a[2] - b[2]
                   borrow == IF lo < 0 THEN 1 ELSE 0
               IN  <<(a[1] - b[1] - borrow) % H, lo % H>>
Lt32(a, b) == a[1] < b[1] \/ (a[1] = b[1] /\ a[2] < b[2])
Gt32(a, b) == Lt32(b, a)
MIN(a, b) == IF Lt32(a, b) THEN a ELSE b
Zero32 == <<0, 0>>
Max32 == <<H - 1, H - 1>>

RECURSIVE BitAnd(_, _)
BitAnd(x, y) == IF x = 0 \/ y = 0 THEN 0
                ELSE (x % 2) * (y % 2) + 2 * BitAnd(x \div 2, y \div 2)
RECURSIVE BitOr(_, _)
BitOr(x, y) == IF x = 0 THEN y
               ELSE IF y = 0 THEN x
               ELSE (IF x % 2 = 1 \/ y % 2 = 1 THEN 1 ELSE 0)
                    + 2 * BitOr(x \div 2, y \div 2)
And32(a, b) == <<BitAnd(a[1], b[1]), BitAnd(a[2], b[2])>>
\* a * k in 32 bits, k < 2^8
Mul32(a, k) == LET lo == a[2] * k
               IN  <<(a[1] * k + (lo \div H)) % H, lo % H>>
\* (int) of a 32-bit unsigned value
ToInt(a) == IF a[1] < H \div 2 THEN a[1] * H + a[2]
            ELSE -((H - 1 - a[1]) * H + (H - a[2]))

\* MOD_POW2(x, y) ((x) & ((y) - 1)), x a uint32_t, y the promoted uint8_t
MOD_POW2(x, y) == And32(x, Sub32(U32(y), U32(1)))

(***************************************************************************)
(* Status codes and program constants                                      *)
(***************************************************************************)
ST25DVXXX_OK == 0
EIO == 5
ENXIO == 6
EINVAL == 22
ERANGE == 34
ENOTSUP == 95
EOVERFLOW == 75
ETIMEDOUT == 110
I2C_REG16 == 2
ST25DVXXX_SET_BUF_SIZE == 32
ST25DVXXX_CLEAR_BYTE == 0
ST25DVXXX_DEF_DEV_ADDR == 80
ST25DVXXX_POLL_DELAY_US == 1000
AddrModeLimit == 2048
\* pin_wp of a board without a write-protect line, and the output mode
GPIO_UNDEF == -1
GPIO_OUT == "out"

VARIABLES
    board,      \* st25dvxxx_params[0]: the configuration the board defines
    params,     \* dev->params: the configuration held in the handle
    gpio,       \* the write-protect line and the GPIO calls of the operation
    mtd,        \* mtd_dev_t of the block-storage adapter
    max_frame,  \* PERIPH_I2C_MAX_BYTES_PER_FRAME, 0 when the build lacks it
    chip_page,  \* page size of the simulated chip
    mem,        \* simulated chip memory: linear address -> byte (sparse)
    plan,       \* the caller's script: "init", then "op" (an operation is
                \* next) and "readback" (it succeeded and its range is read),
                \* or "wp" (write-protect calls), or "mtd" (the adapter);
                \* "end"
    pc,         \* "idle", "xfer" (at a bus call), "sleep", "ret" (_read or
                \* _write_page returns), "done" (the operation returned)
    call,       \* the public operation in progress and its arguments
    st,         \* locals of _set: pos, len, clen
    wr,         \* locals of _write: pos, len, clen, off (cdata - data)
    rd,         \* locals of _read_max: pos, len, clen, off (data_p - data)
    txn,        \* the bus transaction of the running _read / _write_page
    bus,        \* bus ownership and what the call did with the bus
    ret,        \* return value of the public operation
    buf,        \* bytes stored into the caller's read buffer
    prev,       \* the previous memory-changing call and its result
    mem0,       \* chip memory when the call was entered
    cur,        \* the running thread; plan .. mem0 and the counts of bus
                \* are its context
    parked,     \* the context of the other thread, if there is one
    usb         \* tinyusb_setup and the tinyUSB thread

\* the variables of the EEPROM driver and of its callers
driver == <<board, params, gpio, mtd, max_frame, chip_page, mem, plan, pc,
            call, st, wr, rd, txn, bus, ret, buf, prev, mem0, cur, parked>>
vars == <<board, params, gpio, mtd, max_frame, chip_page, mem, plan, pc, call,
          st, wr, rd, txn, bus, ret, buf, prev, mem0, cur, parked, usb>>

(***************************************************************************)
(* Device configurations                                                   *)
(***************************************************************************)
DeviceTable ==
    { [size |-> 0,      page |-> 4],
      [size |-> 128,    page |-> 4],
      [size |-> 256,    page |-> 8],
      [size |-> 512,    page |-> 16],
      [size |-> 2048,   page |-> 16],
      [size |-> 4096,   page |-> 32],
      [size |-> 131072, page |-> 128] }

\* the devices st25dvxxx_defines.h defines: <name>_EEPROM_SIZE,
\* <name>_PAGE_SIZE and <name>_PAGE_WRITE_DELAY_US; "default" is the
\* configuration of a build that selects none of them
PredefinedDevices ==
    { [name |-> "AT24C01A",  size |-> 128,    page |-> 8,   delay |-> 5000],
      [name |-> "AT24C02",   size |-> 256,    page |-> 8,   delay |-> 5000],
      [name |-> "AT24C04",   size |-> 512,    page |-> 16,  delay |-> 5000],
      [name |-> "AT24C08A",  size |-> 1024,   page |-> 16,  delay |-> 5000],
      [name |-> "AT24C16A",  size |-> 2048,   page |-> 16,  delay |-> 5000],
      [name |-> "AT24C32",   size |-> 4096,   page |-> 32,  delay |-> 10000],
      [name |-> "AT24C64",   size |-> 8192,   page |-> 32,  delay |-> 10000],
      [name |-> "AT24C128",  size |-> 16384,  page |-> 64,  delay |-> 5000],
      [name |-> "AT24C256",  size |-> 32768,  page |-> 64,  delay |-> 5000],
      [name |-> "AT24C512",  size |-> 65536,  page |-> 128, delay |-> 5000],
      [name |-> "AT24CS04",  size |-> 512,    page |-> 16,  delay |-> 5000],
      [name |-> "AT24CS08",  size |-> 1024,   page |-> 16,  delay |-> 5000],
      [name |-> "AT24C1024", size |-> 131072, page |-> 256, delay |-> 5000],
      [name |-> "AT24MAC",   size |-> 256,    page |-> 16,  delay |-> 5000],
      [name |-> "M24C01",    size |-> 128,    page |-> 16,  delay |-> 5000],
      [name |-> "default",   size |-> 128,    page |-> 4,   delay |-> 5000] }
\* <name>_MAX_POLLS
MAX_POLLS(d) == 1 + (d.delay \div ST25DVXXX_POLL_DELAY_US)

\* st25dvxxx_params_t: eeprom_size is a uint32_t, the other fields uint8_t
MkParams(d, polls) ==
    [ pin_wp      |-> GPIO_UNDEF,
      eeprom_size |-> U32(d.size),
      dev_addr    |-> ST25DVXXX_DEF_DEV_ADDR % Byte,
      page_size   |-> d.page % Byte,
      max_polls   |-> polls % Byte ]

\* the same board with its write-protect line on this pin
WithPin(p, pin) == [p EXCEPT !.pin_wp = pin]
\* the handle before st25dvxxx_init
NoParams == [pin_wp |-> GPIO_UNDEF, eeprom_size |-> Zero32, dev_addr |-> 0,
             page_size |-> 0, max_polls |-> 0]

DEV_PIN_WP == params.pin_wp
DEV_EEPROM_SIZE == params.eeprom_size
DEV_I2C_ADDR == params.dev_addr
DEV_PAGE_SIZE == params.page_size
DEV_MAX_POLLS == params.max_polls

NoCall == [fn |-> "none", pos |-> Zero32, len |-> Zero32, val |-> 0]
NoFrame == [pos |-> Zero32, len |-> Zero32, clen |-> Zero32, off |-> 0]
NoTxn == [kind |-> "none", seq |-> 0, pos |-> Zero32, off |-> 0, len |-> 0,
          dev_addr |-> 0, reg |-> 0, flags |-> 0, polls |-> 0, check |-> 0,
          att |-> 0, nacks |-> 0, sleeps |-> 0, last |-> 0, done |-> FALSE,
          earlier |-> FALSE]
\* held: owners of the bus; acquires, releases: calls made by the operation;
\* touched, slept: the operation issued a bus transaction, slept;
\* outside: it did one of the two while it did not hold the bus
FreeBus == [held |-> 0, acquires |-> 0, releases |-> 0, touched |-> FALSE,
            slept |-> FALSE, outside |-> FALSE]

NoMtd == [page_size |-> 0, pages_per_sector |-> 0, sector_count |-> 0,
          write_size |-> 0]
\* mode: "none" until gpio_init; level: "floating" until the line is driven;
\* calls: GPIO calls of the operation; last: the last call that drove it
NoGpio == [mode |-> "none", level |-> "floating", calls |-> 0, last |-> "none"]

(***************************************************************************)
(* GPIO                                                                    *)
(***************************************************************************)
gpio_is_valid(pin) == pin # GPIO_UNDEF
gpio_init(g, mode) == [g EXCEPT !.mode = mode, !.calls = @ + 1]
gpio_set(g) == [g EXCEPT !.level = "high", !.calls = @ + 1]
gpio_clear(g) == [g EXCEPT !.level = "low", !.calls = @ + 1]

(***************************************************************************)
(* Bus transport: ownership                                                *)
(***************************************************************************)
\* i2c_acquire returns once no thread holds the bus
Available == bus.held = 0
i2c_acquire(b) == [b EXCEPT !.held = @ + 1, !.acquires = @ + 1]
i2c_release(b) == [b EXCEPT !.held = @ - 1, !.releases = @ + 1]

(***************************************************************************)
(* Address translation, first lines of _read and of _write_page            *)
(***************************************************************************)
\* variant: two of the borrowed address bits reach the chip address
_read_addr_two_bits(pos) ==
    IF Gt32(DEV_EEPROM_SIZE, U32(AddrModeLimit))
    THEN [ dev_addr |-> BitOr(DEV_I2C_ADDR, BitAnd(pos[1], 255)) % Byte,
           reg      |-> pos[2],
           flags    |-> I2C_REG16 ]
    ELSE [ dev_addr |-> BitOr(DEV_I2C_ADDR, BitAnd(pos[2], 768) \div 256) % Byte,
           reg      |-> BitAnd(pos[2], 255),
           flags    |-> 0 ]

_read_addr(pos) ==
    IF Gt32(DEV_EEPROM_SIZE, U32(AddrModeLimit))
    THEN [ dev_addr |-> BitOr(DEV_I2C_ADDR, BitAnd(pos[1], 255)) % Byte,
           reg      |-> pos[2],
           flags    |-> I2C_REG16 ]
    ELSE [ dev_addr |-> BitOr(DEV_I2C_ADDR, BitAnd(pos[2], 65280) \div 256) % Byte,
           reg      |-> BitAnd(pos[2], 255),
           flags    |-> 0 ]

\* variant: 16-bit word addresses from 2048 bytes on
_write_page_addr_ge(pos) ==
    IF ~Lt32(DEV_EEPROM_SIZE, U32(AddrModeLimit))
    THEN [ dev_addr |-> BitOr(DEV_I2C_ADDR, BitAnd(pos[1], 255)) % Byte,
           reg      |-> pos[2],
           flags    |-> I2C_REG16 ]
    ELSE [ dev_addr |-> BitOr(DEV_I2C_ADDR, BitAnd(pos[2], 65280) \div 256) % Byte,
           reg      |-> BitAnd(pos[2], 255),
           flags    |-> 0 ]

_write_page_addr(pos) ==
    IF Gt32(DEV_EEPROM_SIZE, U32(AddrModeLimit))
    THEN [ dev_addr |-> BitOr(DEV_I2C_ADDR, BitAnd(pos[1], 255)) % Byte,
           reg      |-> pos[2],
           flags    |-> I2C_REG16 ]
    ELSE [ dev_addr |-> BitOr(DEV_I2C_ADDR, BitAnd(pos[2], 65280) \div 256) % Byte,
           reg      |-> BitAnd(pos[2], 255),
           flags    |-> 0 ]

\* variant: the polls the previous transaction left are the budget
NewTxnCarry(kind, seq, pos, len, off) ==
    LET a == IF kind = "r" THEN _read_addr(pos) ELSE _write_page_addr(pos)
    IN  [ kind |-> kind, seq |-> seq, pos |-> pos, off |-> off,
          len |-> Val32(len),
          dev_addr |-> a.dev_addr, reg |-> a.reg, flags |-> a.flags,
          polls |-> IF seq > 1 THEN txn.polls ELSE DEV_MAX_POLLS, check |-> 0,
          att |-> 0, nacks |-> 0, sleeps |-> 0, last |-> 0, done |-> FALSE,
          earlier |-> seq > 1 /\ (txn.earlier \/ txn.nacks > 0) ]

\* entry of _read / _write_page: polls = DEV_MAX_POLLS, address translation;
\* earlier: a transaction of the operation before this one got a NoAck
NewTxn(kind, seq, pos, len, off) ==
    LET a == IF kind = "r" THEN _read_addr(pos) ELSE _write_page_addr(pos)
    IN  [ kind |-> kind, seq |-> seq, pos |-> pos, off |-> off,
          len |-> Val32(len),
          dev_addr |-> a.dev_addr, reg |-> a.reg, flags |-> a.flags,
          polls |-> DEV_MAX_POLLS, check |-> 0,
          att |-> 0, nacks |-> 0, sleeps |-> 0, last |-> 0, done |-> FALSE,
          earlier |-> seq > 1 /\ (txn.earlier \/ txn.nacks > 0) ]

(***************************************************************************)
(* The poll loop of _read and _write_page                                  *)
(***************************************************************************)
\* --polls on a uint8_t
PollsAfter(res, polls) == IF res = -ENXIO THEN (polls - 1) % Byte ELSE polls
\* variant: the loop gives up one attempt early
PollAgainEarly(res, polls) == res = -ENXIO /\ PollsAfter(res, polls) > 1
\* variant: every failure is retried
PollAgainAnyError(res, polls) ==
    res # ST25DVXXX_OK /\ PollsAfter(res, polls) # 0
\* the loop goes on to xtimer_usleep and to another attempt
PollAgain(res, polls) == res = -ENXIO /\ PollsAfter(res, polls) # 0

(***************************************************************************)
(* _write, _set and _read_max                                              *)
(***************************************************************************)
\* variant: the chunk is cut at the page size, not at the end of the page
ChunkLenNoAlign(pos, len) == MIN(len, U32(DEV_PAGE_SIZE))
\* clen of _write
ChunkLen(pos, len) ==
    MIN(len, Sub32(U32(DEV_PAGE_SIZE), MOD_POW2(pos, DEV_PAGE_SIZE)))
\* variant: the fill is handed to _write in one piece
SetChunkLenWhole(len) == len
\* clen of _set
SetChunkLen(len) == MIN(U32(ST25DVXXX_SET_BUF_SIZE), len)
\* variant: every frame has the full frame length
FrameLenFull(len) == U32(max_frame)
\* clen of _read_max
FrameLen(len) == MIN(len, U32(max_frame))

\* head of the loop of _write: the function returns, or issues _write_page
WriteLoop(w, check, seq) ==
    IF w.len = Zero32
    THEN [returned |-> TRUE, check |-> check, wr |-> w, txn |-> NoTxn]
    ELSE LET clen == ChunkLen(w.pos, w.len)
         IN  [ returned |-> FALSE, check |-> check,
               wr  |-> [w EXCEPT !.clen = clen],
               txn |-> NewTxn("w", seq, w.pos, clen, w.off) ]

\* variant: cdata is not advanced with pos
WriteResumeSameData(w, check, seq) ==
    IF check = 0
    THEN WriteLoop([ pos  |-> Add32(w.pos, w.clen),
                     len  |-> Sub32(w.len, w.clen),
                     clen |-> w.clen,
                     off  |-> w.off ], check, seq)
    ELSE [returned |-> TRUE, check |-> check, wr |-> w, txn |-> NoTxn]
\* variant: the loop goes on after a failed chunk
WriteResumeIgnoreError(w, check, seq) ==
    WriteLoop([ pos  |-> Add32(w.pos, w.clen),
                len  |-> Sub32(w.len, w.clen),
                clen |-> w.clen,
                off  |-> w.off + Val32(w.clen) ], check, seq)
\* variant: a byte is left out between two chunks
WriteResumeGap(w, check, seq) ==
    IF check = 0
    THEN WriteLoop([ pos  |-> Add32(w.pos, Add32(w.clen, U32(1))),
                     len  |-> Sub32(w.len, w.clen),
                     clen |-> w.clen,
                     off  |-> w.off + Val32(w.clen) ], check, seq)
    ELSE [returned |-> TRUE, check |-> check, wr |-> w, txn |-> NoTxn]
\* _write after _write_page returned check
WriteResume(w, check, seq) ==
    IF check = 0
    THEN WriteLoop([ pos  |-> Add32(w.pos, w.clen),
                     len  |-> Sub32(w.len, w.clen),
                     clen |-> w.clen,
                     off  |-> w.off + Val32(w.clen) ], check, seq)
    ELSE [returned |-> TRUE, check |-> check, wr |-> w, txn |-> NoTxn]

\* head of the loop of _set: the function returns, or calls _write
SetLoop(s, check, seq) ==
    IF s.len = Zero32
    THEN [returned |-> TRUE, check |-> check, st |-> s, wr |-> NoFrame,
          txn |-> NoTxn]
    ELSE LET clen == SetChunkLen(s.len)
             w == WriteLoop([pos |-> s.pos, len |-> clen, clen |-> Zero32,
                             off |-> 0], 0, seq)
         IN  [ returned |-> w.returned, check |-> w.check,
               st |-> [s EXCEPT !.clen = clen], wr |-> w.wr, txn |-> w.txn ]

\* _set after _write returned check
SetResume(s, check, seq) ==
    IF check = 0
    THEN SetLoop([ pos  |-> Add32(s.pos, s.clen),
                   len  |-> Sub32(s.len, s.clen),
                   clen |-> s.clen,
                   off  |-> 0 ], check, seq)
    ELSE [returned |-> TRUE, check |-> check, st |-> s, wr |-> NoFrame,
          txn |-> NoTxn]

\* head of the loop of _read_max in the build with a frame limit
ReadMaxLoop(r, seq) ==
    IF r.len = Zero32
    THEN [returned |-> TRUE, check |-> ST25DVXXX_OK, rd |-> r, txn |-> NoTxn]
    ELSE LET clen == FrameLen(r.len)
         IN  [ returned |-> FALSE, check |-> 0,
               rd  |-> [r EXCEPT !.clen = clen],
               txn |-> NewTxn("r", seq, r.pos, clen, r.off) ]

\* _read_max after _read returned check
ReadMaxResume(r, check, seq) ==
    IF max_frame = 0
    THEN [returned |-> TRUE, check |-> check, rd |-> r, txn |-> NoTxn]
    ELSE IF check = ST25DVXXX_OK
    THEN ReadMaxLoop([ pos  |-> Add32(r.pos, r.clen),
                       len  |-> Sub32(r.len, r.clen),
                       clen |-> r.clen,
                       off  |-> r.off + Val32(r.clen) ], seq)
    ELSE [returned |-> TRUE, check |-> -EIO, rd |-> r, txn |-> NoTxn]

\* _read_max on entry
ReadMaxEnter(pos, len) ==
    IF max_frame = 0
    THEN [ returned |-> FALSE, check |-> 0,
           rd  |-> [pos |-> pos, len |-> len, clen |-> len, off |-> 0],
           txn |-> NewTxn("r", 1, pos, len, 0) ]
    ELSE ReadMaxLoop([pos |-> pos, len |-> len, clen |-> Zero32, off |-> 0], 1)

(***************************************************************************)
(* Simulated chip behind the bus                                           *)
(***************************************************************************)
Capacity == Val32(DEV_EEPROM_SIZE)
\* bytes addressed by one chip address: word address of 8 or of 16 bits
BlockSize == IF Capacity > AddrModeLimit THEN H ELSE Byte
\* linear address selected by chip address and word address
Lin(t) == (t.dev_addr - ST25DVXXX_DEF_DEV_ADDR) * BlockSize + t.reg
\* the chip answers to this chip address and word address
Mapped(t) == /\ t.dev_addr >= ST25DVXXX_DEF_DEV_ADDR
             /\ t.reg < BlockSize
             /\ Lin(t) < Capacity

InitByte(a) == 200 + (a % 7)
MemAt(m, a) == IF a \in DOMAIN m THEN m[a] ELSE InitByte(a)

\* byte i of the buffer the operation hands to _write
DataByte(c, i) == IF c.fn = "write" THEN (c.val + i) % Byte ELSE c.val

\* page write: the address counter wraps inside the page
PageCell(lin, i) == (lin - (lin % chip_page)) + (((lin % chip_page) + i) % chip_page)
PageWrite(m, lin, n, c, off) ==
    LET touched == {PageCell(lin, i) : i \in 0..(n - 1)}
        lastOf(a) == CHOOSE i \in 0..(n - 1) :
                        /\ PageCell(lin, i) = a
                        /\ \A j \in (i + 1)..(n - 1) : PageCell(lin, j) # a
    IN  [a \in (DOMAIN m) \cup touched |->
            IF a \in touched THEN DataByte(c, off + lastOf(a)) ELSE m[a]]

\* sequential read: the address counter runs through the whole array
ReadBytes(m, lin, n) == [i \in 1..n |-> MemAt(m, (lin + i - 1) % Capacity)]

\* the caller's buffer after n bytes were stored at offset off
StoreAt(b, off, bytes) ==
    LET n == Len(bytes)
        top == IF Len(b) > off + n THEN Len(b) ELSE off + n
    IN  [i \in 1..top |->
            IF i > off /\ i <= off + n THEN bytes[i - off]
            ELSE IF i <= Len(b) THEN b[i] ELSE 0]

\* what i2c_read_regs / i2c_write_regs can return for this transaction
BusAnswers(t) ==
    {-ENXIO, -EIO, -ETIMEDOUT} \cup (IF Mapped(t) THEN {ST25DVXXX_OK} ELSE {})

(***************************************************************************)
(* Entry of the public operations                                          *)
(***************************************************************************)
\* pos + len > DEV_EEPROM_SIZE, computed in 32 bits
OutOfRange(pos, len) == Gt32(Add32(pos, len), DEV_EEPROM_SIZE)
\* pos >= DEV_EEPROM_SIZE
ByteOutOfRange(pos) == ~Lt32(pos, DEV_EEPROM_SIZE)

\* variant: the bus is taken for a length of zero as well
IsNoopNever(len) == FALSE
\* if (len) { ... } of st25dvxxx_read, st25dvxxx_write and st25dvxxx_set
IsNoop(len) == len = Zero32

\* variant: the bus is released on success only
LeaveOnSuccess(b, check) == IF check = ST25DVXXX_OK THEN i2c_release(b) ELSE b
\* i2c_release before the public operation returns check
Leave(b, check) == i2c_release(b)

\* the bus as the operation finds it
BusAtEntry == [FreeBus EXCEPT !.held = bus.held]

Enter(c) ==
    /\ pc = "idle"
    /\ call' = c
    /\ mem0' = mem
    /\ buf' = <<>>
    /\ UNCHANGED <<usb, board, params, gpio, mtd, max_frame, chip_page, mem, plan,
                   prev, cur, parked>>

\* variant: the bus is taken before the arguments are checked
RefuseAfterAcquire(r) ==
    /\ pc' = "done"
    /\ ret' = r
    /\ bus' = i2c_release(i2c_acquire(BusAtEntry))
    /\ txn' = NoTxn
    /\ st' = NoFrame
    /\ wr' = NoFrame
    /\ rd' = NoFrame

\* return without bus access
Refuse(r) ==
    /\ pc' = "done"
    /\ ret' = r
    /\ bus' = BusAtEntry
    /\ txn' = NoTxn
    /\ st' = NoFrame
    /\ wr' = NoFrame
    /\ rd' = NoFrame

\* the operation holds the bus in b and its helper k returned or is at its
\* first bus call
Proceed(b, k, s, w, r) ==
    /\ st' = s
    /\ wr' = w
    /\ rd' = r
    /\ IF k.returned
       THEN /\ pc' = "done"
            /\ ret' = k.check
            /\ txn' = txn
            /\ bus' = Leave(b, k.check)
       ELSE /\ pc' = "xfer"
            /\ ret' = ret
            /\ txn' = k.txn
            /\ bus' = b

\* variant: the line is driven high
st25dvxxx_disable_write_protect_set(p, g) ==
    IF ~gpio_is_valid(p.pin_wp)
    THEN [ret |-> -ENOTSUP, gpio |-> g]
    ELSE [ret |-> ST25DVXXX_OK,
          gpio |-> [gpio_set(g) EXCEPT !.last = "disable"]]
\* with the handle's parameters p and the line in g
st25dvxxx_disable_write_protect(p, g) ==
    IF ~gpio_is_valid(p.pin_wp)
    THEN [ret |-> -ENOTSUP, gpio |-> g]
    ELSE [ret |-> ST25DVXXX_OK,
          gpio |-> [gpio_clear(g) EXCEPT !.last = "disable"]]

st25dvxxx_enable_write_protect(p, g) ==
    IF ~gpio_is_valid(p.pin_wp)
    THEN [ret |-> -ENOTSUP, gpio |-> g]
    ELSE [ret |-> ST25DVXXX_OK,
          gpio |-> [gpio_set(g) EXCEPT !.last = "enable"]]

\* a call that returns r without bus access and leaves the line as k says
WriteProtectCall(fn, k) ==
    /\ pc = "idle"
    /\ call' = [NoCall EXCEPT !.fn = fn]
    /\ mem0' = mem
    /\ buf' = <<>>
    /\ Refuse(k.ret)
    /\ gpio' = k.gpio
    /\ UNCHANGED <<usb, board, params, mtd, max_frame, chip_page, mem, plan, prev,
                   cur, parked>>

\* variant: the handle is written before the arguments are checked
st25dvxxx_init_copy_first(dev, p) ==
    IF dev = "NULL" \/ p = "NULL"
    THEN [ret |-> -EINVAL, params |-> board, gpio |-> gpio,
          bus |-> BusAtEntry]
    ELSE [ret    |-> ST25DVXXX_OK,
          params |-> board,
          gpio   |-> IF gpio_is_valid(board.pin_wp)
                     THEN st25dvxxx_disable_write_protect(
                              board, gpio_init(gpio, GPIO_OUT)).gpio
                     ELSE gpio,
          bus    |-> i2c_release(i2c_acquire(BusAtEntry))]

\* dev and p are "NULL" or "valid": the handle and the parameters of the
\* board; the result, the handle, the line and the bus when it returns
st25dvxxx_init(dev, p) ==
    IF dev = "NULL" \/ p = "NULL"
    THEN [ret |-> -EINVAL, params |-> params, gpio |-> gpio,
          bus |-> BusAtEntry]
    ELSE [ret    |-> ST25DVXXX_OK,
          params |-> board,
          gpio   |-> IF gpio_is_valid(board.pin_wp)
                     THEN st25dvxxx_disable_write_protect(
                              board, gpio_init(gpio, GPIO_OUT)).gpio
                     ELSE gpio,
          bus    |-> i2c_release(i2c_acquire(BusAtEntry))]

\* _mtd_st25dvxxx_init: st25dvxxx_init, then the geometry
_mtd_st25dvxxx_init ==
    LET k == st25dvxxx_init("valid", "valid")
    IN  IF k.ret # ST25DVXXX_OK
        THEN [ret |-> k.ret, params |-> k.params, gpio |-> k.gpio,
              bus |-> k.bus, mtd |-> mtd]
        ELSE [ret |-> 0, params |-> k.params, gpio |-> k.gpio, bus |-> k.bus,
              mtd |-> [ page_size        |-> k.params.page_size,
                        pages_per_sector |-> 1,
                        sector_count     |-> Val32(k.params.eeprom_size)
                                               \div k.params.page_size,
                        write_size       |-> 1 ]]

\* a call c that runs to its return k without a bus transaction
InitCall(c, k, m) ==
    /\ pc = "idle"
    /\ k.bus.acquires > 0 => Available
    /\ call' = c
    /\ mem0' = mem
    /\ buf' = <<>>
    /\ pc' = "done"
    /\ txn' = NoTxn
    /\ st' = NoFrame
    /\ wr' = NoFrame
    /\ rd' = NoFrame
    /\ ret' = k.ret
    /\ params' = k.params
    /\ gpio' = k.gpio
    /\ bus' = k.bus
    /\ mtd' = m
    /\ UNCHANGED <<usb, board, max_frame, chip_page, mem, plan, prev, cur, parked>>

\* mtd_st25dvxxx_write_page: the size is cut at the end of the page
mtd_st25dvxxx_write_page(page, offset, size) ==
    /\ Enter([fn |-> "mtd_write_page", pos |-> page, len |-> size, val |-> 23,
              offset |-> offset])
    /\ Available
    /\ LET remaining == Sub32(U32(DEV_PAGE_SIZE), offset)
           clen == MIN(size, remaining)
           start == Add32(Mul32(page, mtd.page_size), offset)
       IN  Proceed(i2c_acquire(BusAtEntry),
                   [returned |-> FALSE, check |-> 0,
                    txn |-> NewTxn("w", 1, start, clen, 0)],
                   NoFrame, NoFrame, NoFrame)

st25dvxxx_read_byte(pos) ==
    /\ Enter([fn |-> "read_byte", pos |-> pos, len |-> U32(1), val |-> 0])
    /\ IF ByteOutOfRange(pos)
       THEN Refuse(-ERANGE)
       ELSE /\ Available
            /\ Proceed(i2c_acquire(BusAtEntry),
                       [returned |-> FALSE, check |-> 0,
                        txn |-> NewTxn("r", 1, pos, U32(1), 0)],
                       NoFrame, NoFrame, NoFrame)

st25dvxxx_read(pos, len) ==
    /\ Enter([fn |-> "read", pos |-> pos, len |-> len, val |-> 0])
    /\ IF OutOfRange(pos, len)
       THEN Refuse(-ERANGE)
       ELSE IF IsNoop(len)
       THEN Refuse(ST25DVXXX_OK)
       ELSE /\ Available
            /\ LET k == ReadMaxEnter(pos, len)
               IN  Proceed(i2c_acquire(BusAtEntry), k, NoFrame, NoFrame, k.rd)

st25dvxxx_write_byte(pos, data) ==
    /\ Enter([fn |-> "write_byte", pos |-> pos, len |-> U32(1), val |-> data])
    /\ IF ByteOutOfRange(pos)
       THEN Refuse(-ERANGE)
       ELSE /\ Available
            /\ LET k == WriteLoop([pos |-> pos, len |-> U32(1),
                                   clen |-> Zero32, off |-> 0], 0, 1)
               IN  Proceed(i2c_acquire(BusAtEntry), k, NoFrame, k.wr, NoFrame)

st25dvxxx_write(pos, data, len) ==
    /\ Enter([fn |-> "write", pos |-> pos, len |-> len, val |-> data])
    /\ IF OutOfRange(pos, len)
       THEN Refuse(-ERANGE)
       ELSE IF IsNoop(len)
       THEN Refuse(ST25DVXXX_OK)
       ELSE /\ Available
            /\ LET k == WriteLoop([pos |-> pos, len |-> len, clen |-> Zero32,
                                   off |-> 0], 0, 1)
               IN  Proceed(i2c_acquire(BusAtEntry), k, NoFrame, k.wr, NoFrame)

\* _mtd_st25dvxxx_erase turns the result of st25dvxxx_clear into 0 or -EIO;
\* the other operations return it as it is
Result(fn, check) ==
    IF fn = "mtd_erase"
    THEN (IF check = ST25DVXXX_OK THEN 0 ELSE -EIO)
    ELSE check

\* variant: the fill does not take the bus
st25dvxxx_set_unlocked(fn, pos, val, len) ==
    /\ Enter([fn |-> fn, pos |-> pos, len |-> len, val |-> val])
    /\ IF OutOfRange(pos, len)
       THEN Refuse(Result(fn, -ERANGE))
       ELSE IF IsNoop(len)
       THEN Refuse(Result(fn, ST25DVXXX_OK))
       ELSE LET k == SetLoop([pos |-> pos, len |-> len, clen |-> Zero32,
                              off |-> 0], 0, 1)
            IN  Proceed(BusAtEntry, k, k.st, k.wr, NoFrame)

\* st25dvxxx_set; fn names the public operation that was called
st25dvxxx_set(fn, pos, val, len) ==
    /\ Enter([fn |-> fn, pos |-> pos, len |-> len, val |-> val])
    /\ IF OutOfRange(pos, len)
       THEN Refuse(Result(fn, -ERANGE))
       ELSE IF IsNoop(len)
       THEN Refuse(Result(fn, ST25DVXXX_OK))
       ELSE /\ Available
            /\ LET k == SetLoop([pos |-> pos, len |-> len, clen |-> Zero32,
                                 off |-> 0], 0, 1)
               IN  Proceed(i2c_acquire(BusAtEntry), k, k.st, k.wr, NoFrame)

st25dvxxx_clear(fn, pos, len) == st25dvxxx_set(fn, pos, ST25DVXXX_CLEAR_BYTE, len)

\* variant: the last byte of the memory is left out
st25dvxxx_erase_short ==
    st25dvxxx_clear("erase", Zero32,
                    IF DEV_EEPROM_SIZE = Zero32 THEN Zero32
                    ELSE Sub32(DEV_EEPROM_SIZE, U32(1)))
st25dvxxx_erase == st25dvxxx_clear("erase", Zero32, DEV_EEPROM_SIZE)

\* the adapter's erase is st25dvxxx_clear, its result goes through Result
_mtd_st25dvxxx_erase(addr, size) == st25dvxxx_clear("mtd_erase", addr, size)
\* the adapter's power: the result, and the line as it was
_mtd_st25dvxxx_power(power) == [ret |-> -ENOTSUP, gpio |-> gpio]

(***************************************************************************)
(* One bus call and the driver code up to the next one                     *)
(***************************************************************************)
\* _write_page returned check: _write, then _set, then the public operation;
\* or the adapter, which returns the size
AfterWritePage(check, seq) ==
    LET w == WriteResume(wr, check, seq)
    IN  IF call.fn = "mtd_write_page"
        THEN [returned |-> TRUE,
              check |-> IF check < 0 THEN check ELSE ToInt(U32(txn.len)),
              st |-> st, wr |-> wr, txn |-> NoTxn]
        ELSE IF w.returned /\ call.fn \in {"set", "clear", "erase", "mtd_erase"}
        THEN LET s == SetResume(st, w.check, seq)
             IN  IF s.returned
                 THEN [s EXCEPT !.check = Result(call.fn, s.check)]
                 ELSE s
        ELSE [returned |-> w.returned, check |-> w.check, st |-> st,
              wr |-> w.wr, txn |-> w.txn]

\* _read returned check: _read_max (st25dvxxx_read) or st25dvxxx_read_byte
AfterRead(check, seq) ==
    IF call.fn = "read_byte"
    THEN [returned |-> TRUE, check |-> check, rd |-> rd, txn |-> NoTxn]
    ELSE ReadMaxResume(rd, check, seq)

\* the attempt is counted, polls decremented on -ENXIO
Attempt(t, res) ==
    [t EXCEPT !.att = @ + 1, !.last = res,
              !.nacks = IF res = -ENXIO THEN @ + 1 ELSE @,
              !.polls = PollsAfter(res, t.polls)]

UseBus(b) == [b EXCEPT !.touched = TRUE,
                       !.outside = IF b.held = 0 THEN TRUE ELSE @]

\* the body of the poll loop after the bus call returned res
PollStep(res) ==
    /\ bus' = UseBus(bus)
    /\ IF PollAgain(res, txn.polls)
       THEN /\ pc' = "sleep"
            /\ txn' = Attempt(txn, res)
       ELSE /\ pc' = "ret"
            /\ txn' = [Attempt(txn, res) EXCEPT !.check = res, !.done = TRUE]

i2c_write_regs ==
    /\ pc = "xfer"
    /\ txn.kind = "w"
    /\ \E res \in BusAnswers(txn) :
        /\ mem' = IF res = ST25DVXXX_OK
                  THEN PageWrite(mem, Lin(txn), txn.len, call, txn.off)
                  ELSE mem
        /\ PollStep(res)
    /\ UNCHANGED <<usb, board, params, gpio, mtd, max_frame, chip_page, plan, call,
                   st, wr, rd, ret, buf, prev, mem0, cur, parked>>

\* _write_page returns txn.check to _write
_write_page_return ==
    /\ pc = "ret"
    /\ txn.kind = "w"
    /\ txn.seq <= MaxChunks
    /\ LET k == AfterWritePage(txn.check, txn.seq + 1)
       IN  Proceed(bus, k, k.st, k.wr, rd)
    /\ UNCHANGED <<usb, board, params, gpio, mtd, max_frame, chip_page, mem, plan,
                   call, buf, prev, mem0, cur, parked>>

i2c_read_regs ==
    /\ pc = "xfer"
    /\ txn.kind = "r"
    /\ \E res \in BusAnswers(txn) :
        /\ buf' = IF res = ST25DVXXX_OK
                  THEN StoreAt(buf, txn.off, ReadBytes(mem, Lin(txn), txn.len))
                  ELSE buf
        /\ PollStep(res)
    /\ UNCHANGED <<usb, board, params, gpio, mtd, max_frame, chip_page, mem, plan,
                   call, st, wr, rd, ret, prev, mem0, cur, parked>>

\* _read returns txn.check to _read_max or to st25dvxxx_read_byte
_read_return ==
    /\ pc = "ret"
    /\ txn.kind = "r"
    /\ txn.seq <= MaxChunks
    /\ LET k == AfterRead(txn.check, txn.seq + 1)
       IN  Proceed(bus, k, st, wr, k.rd)
    /\ UNCHANGED <<usb, board, params, gpio, mtd, max_frame, chip_page, mem, plan,
                   call, buf, prev, mem0, cur, parked>>

\* variant: two delays between two attempts
xtimer_usleep_twice ==
    /\ pc = "sleep"
    /\ pc' = "xfer"
    /\ txn' = [txn EXCEPT !.sleeps = @ + 2]
    /\ bus' = [bus EXCEPT !.slept = TRUE,
                          !.outside = IF bus.held = 0 THEN TRUE ELSE @]
    /\ UNCHANGED <<usb, board, params, gpio, mtd, max_frame, chip_page, mem, plan,
                   call, st, wr, rd, ret, buf, prev, mem0, cur, parked>>

\* xtimer_usleep(ST25DVXXX_POLL_DELAY_US) between two attempts
xtimer_usleep ==
    /\ pc = "sleep"
    /\ pc' = "xfer"
    /\ txn' = [txn EXCEPT !.sleeps = @ + 1]
    /\ bus' = [bus EXCEPT !.slept = TRUE,
                          !.outside = IF bus.held = 0 THEN TRUE ELSE @]
    /\ UNCHANGED <<usb, board, params, gpio, mtd, max_frame, chip_page, mem, plan,
                   call, st, wr, rd, ret, buf, prev, mem0, cur, parked>>

(***************************************************************************)
(* The caller                                                              *)
(***************************************************************************)
Writers == {"write_byte", "write", "set", "clear", "erase"}

\* the arguments one thread passes, and the fewer that each of two passes
PosChoices ==
    IF parked = [pc |-> "none"]
    THEN {Zero32, U32(5), U32(250), U32(65530), DEV_EEPROM_SIZE, Max32}
         \cup (IF Capacity > 0 THEN {U32(Capacity - 1)} ELSE {})
    ELSE {Zero32, U32(5)}
LenChoices ==
    IF parked = [pc |-> "none"]
    THEN {U32(0), U32(1), U32(6), U32(MaxLen),
          U32(ST25DVXXX_SET_BUF_SIZE + MaxLen)}
    ELSE {U32(1), U32(6)}
\* the fill byte and the first data byte the caller passes
FillBytes == {165}
DataSeeds == {17}

\* a pin the board wires the write-protect line to
WpPins == {3}
Pointers == {"NULL", "valid"}
\* what the caller does once the handle is initialised
Scripts == {"op", "wp"}

Call_init ==
    /\ plan = "init"
    /\ \E dev \in Pointers, p \in Pointers :
        InitCall([fn |-> "init", pos |-> Zero32, len |-> Zero32, val |-> 0,
                  dev |-> dev, params |-> p],
                 st25dvxxx_init(dev, p), mtd)
Call_mtd_init ==
    /\ plan = "init"
    /\ InitCall([NoCall EXCEPT !.fn = "mtd_init"], _mtd_st25dvxxx_init,
                _mtd_st25dvxxx_init.mtd)
\* arguments of the adapter's write_page
MtdPages == {Zero32, U32(1), U32(3)}
MtdOffsets == {Zero32, U32(1), U32(DEV_PAGE_SIZE - 1), U32(DEV_PAGE_SIZE),
               U32(DEV_PAGE_SIZE + 1)}
MtdSizes == {Zero32, U32(1), U32(DEV_PAGE_SIZE), U32(MaxLen)}
Call_mtd_write_page ==
    /\ plan = "mtd"
    /\ \E page \in MtdPages, offset \in MtdOffsets, size \in MtdSizes :
        mtd_st25dvxxx_write_page(page, offset, size)
Call_mtd_erase ==
    /\ plan = "mtd"
    /\ \E addr \in PosChoices, size \in LenChoices :
        _mtd_st25dvxxx_erase(addr, size)
MtdPowerStates == {"MTD_POWER_UP", "MTD_POWER_DOWN"}
Call_mtd_power ==
    /\ plan = "mtd"
    /\ \E power \in MtdPowerStates :
        WriteProtectCall("mtd_power", _mtd_st25dvxxx_power(power))
Call_enable_write_protect ==
    /\ plan = "wp"
    /\ WriteProtectCall("enable_write_protect",
                        st25dvxxx_enable_write_protect(params, gpio))
Call_disable_write_protect ==
    /\ plan = "wp"
    /\ WriteProtectCall("disable_write_protect",
                        st25dvxxx_disable_write_protect(params, gpio))

FirstCall == plan = "op"

Call_read_byte == FirstCall /\ \E pos \in PosChoices : st25dvxxx_read_byte(pos)
Call_read == FirstCall /\ \E pos \in PosChoices, len \in LenChoices :
                            st25dvxxx_read(pos, len)
Call_write_byte == FirstCall /\ \E pos \in PosChoices, b \in FillBytes :
                                  st25dvxxx_write_byte(pos, b)
Call_write == FirstCall /\ \E pos \in PosChoices, len \in LenChoices,
                                d \in DataSeeds :
                             st25dvxxx_write(pos, d, len)
Call_set == FirstCall /\ \E pos \in PosChoices, len \in LenChoices,
                              b \in FillBytes :
                           st25dvxxx_set("set", pos, b, len)
Call_clear == FirstCall /\ \E pos \in PosChoices, len \in LenChoices :
                             st25dvxxx_clear("clear", pos, len)
Call_erase == FirstCall /\ Capacity <= MaxErase /\ st25dvxxx_erase

\* the caller reads the range of the operation that just succeeded
ReadBack ==
    /\ plan = "readback"
    /\ st25dvxxx_read(prev.pos, prev.len)

\* the caller takes the result; the locals of the operation are gone
Return ==
    /\ pc = "done"
    /\ pc' = "idle"
    /\ plan' \in IF plan = "init" /\ call.fn = "mtd_init" /\ ret = 0
                 THEN {"mtd"}
                 ELSE IF plan = "init" /\ ret = ST25DVXXX_OK THEN Scripts
                 ELSE IF plan = "wp" THEN {"wp"}
                 ELSE IF plan = "op" /\ call.fn \in Writers
                         /\ ret = ST25DVXXX_OK
                 THEN {"readback"}
                 ELSE {"end"}
    /\ prev' = IF call.fn \in Writers
               THEN [fn |-> call.fn, pos |-> call.pos, len |-> call.len,
                     val |-> call.val, ret |-> ret, check |-> txn.check]
               ELSE prev
    /\ call' = NoCall
    /\ st' = NoFrame
    /\ wr' = NoFrame
    /\ rd' = NoFrame
    /\ txn' = NoTxn
    /\ bus' = BusAtEntry
    /\ ret' = 0
    /\ buf' = <<>>
    /\ mem0' = mem
    /\ gpio' = [gpio EXCEPT !.calls = 0]
    /\ UNCHANGED <<usb, board, params, mtd, max_frame, chip_page, mem, cur,
                   parked>>

(***************************************************************************)
(* Threads                                                                 *)
(***************************************************************************)
NoThread == [pc |-> "none"]
\* what a thread keeps across a context switch
Context == [plan |-> plan, pc |-> pc, call |-> call, st |-> st, wr |-> wr,
            rd |-> rd, txn |-> txn, bus |-> bus, ret |-> ret, buf |-> buf,
            prev |-> prev, mem0 |-> mem0]

\* the scheduler runs the other thread, unless that has ended; a thread
\* is switched out before a call, at a bus call or in a sleep, and who
\* holds the bus is not part of its context
Switch ==
    /\ parked.pc # "none"
    /\ parked.plan # "end"
    /\ pc # "done"
    /\ params # NoParams
    /\ cur' = 3 - cur
    /\ parked' = Context
    /\ plan' = parked.plan
    /\ pc' = parked.pc
    /\ call' = parked.call
    /\ st' = parked.st
    /\ wr' = parked.wr
    /\ rd' = parked.rd
    /\ txn' = parked.txn
    /\ bus' = [parked.bus EXCEPT !.held = bus.held]
    /\ ret' = parked.ret
    /\ buf' = parked.buf
    /\ prev' = parked.prev
    /\ mem0' = parked.mem0
    /\ UNCHANGED <<usb, board, params, gpio, mtd, max_frame, chip_page, mem>>

(***************************************************************************)
(* The tinyUSB thread shim (pkg/tinyusb/contrib/tinyusb.c)                 *)
(***************************************************************************)
\* device, host: IS_USED(MODULE_TINYUSB_DEVICE), IS_USED(MODULE_TINYUSB_HOST);
\* ndebug: the build defines NDEBUG, and assert(0) is an empty statement;
\* setup: where tinyusb_setup is: "start", "hw_done" (tinyusb_hw_init
\* returned 0), "created" (thread_create returned a thread), "returned";
\* hw, tc: what tinyusb_hw_init and thread_create returned; res: what
\* tinyusb_setup returned;
\* thread: where _tinyusb_thread_impl is: "none" (no thread), "tud_init",
\* "tuh_init", "tud_task", "tuh_task" (about to make this call), "spin"
\* (neither stack is used: an empty loop), "panic" (assert(0) failed);
\* tud, tuh: "no" until tud_init / tuh_init returned, then "ok" or "failed";
\* tud_tasks, tuh_tasks: calls of tud_task and tuh_task; calls: the last
\* calls of the thread
UsbBuild(device, host, ndebug) ==
    [ device |-> device, host |-> host, ndebug |-> ndebug,
      setup |-> "start", hw_called |-> FALSE, hw |-> 0,
      tc_called |-> FALSE, tc |-> 0, res |-> 0,
      thread |-> "none", tud |-> "no", tuh |-> "no",
      tud_tasks |-> 0, tuh_tasks |-> 0, calls |-> <<>> ]
\* a build without the tinyUSB package
NoUsb == UsbBuild(FALSE, FALSE, FALSE)

\* what tinyusb_hw_init and thread_create can return: 0 or an error; the
\* number of the new thread or an error
HwInitResults == {0, -ENXIO, 1}
ThreadCreateResults == {3, -EINVAL, -EOVERFLOW}

\* the first statement of the loop that the build keeps
LoopTop(u) ==
    IF u.device THEN "tud_task" ELSE IF u.host THEN "tuh_task" ELSE "spin"
\* the statement after the if of tud_init
AfterTudInit(u) == IF u.host THEN "tuh_init" ELSE LoopTop(u)
\* the first statement of _tinyusb_thread_impl that the build keeps
ThreadEntry(u) == IF u.device THEN "tud_init" ELSE AfterTudInit(u)
\* assert(0): the thread stops unless the build defines NDEBUG
AssertFailed(u) == ~u.ndebug

Called(u, f) ==
    LET all == Append(u.calls, f)
    IN  IF Len(all) > MaxTrace THEN Tail(all) ELSE all
Counted(n) == IF n < MaxTasks THEN n + 1 ELSE n

\* tinyusb_setup up to the return of tinyusb_hw_init
tinyusb_hw_init ==
    /\ usb.setup = "start"
    /\ \E r \in HwInitResults :
        usb' = IF r # 0
               THEN [usb EXCEPT !.hw_called = TRUE, !.hw = r,
                                !.setup = "returned", !.res = r]
               ELSE [usb EXCEPT !.hw_called = TRUE, !.hw = r,
                                !.setup = "hw_done"]
    /\ UNCHANGED driver

\* tinyusb_setup up to the return of thread_create; the new thread does
\* not run before thread_create returns (THREAD_CREATE_WOUT_YIELD)
thread_create ==
    /\ usb.setup = "hw_done"
    /\ \E r \in ThreadCreateResults :
        usb' = IF r < 0
               THEN [usb EXCEPT !.tc_called = TRUE, !.tc = r,
                                !.setup = "returned", !.res = r]
               ELSE [usb EXCEPT !.tc_called = TRUE, !.tc = r,
                                !.setup = "created",
                                !.thread = ThreadEntry(usb)]
    /\ UNCHANGED driver

\* return 0 of tinyusb_setup
tinyusb_setup_return ==
    /\ usb.setup = "created"
    /\ usb' = [usb EXCEPT !.setup = "returned", !.res = 0]
    /\ UNCHANGED driver

tud_init ==
    /\ usb.thread = "tud_init"
    /\ \E ok \in BOOLEAN :
        usb' = [usb EXCEPT
                  !.tud = IF ok THEN "ok" ELSE "failed",
                  !.calls = Called(usb, "tud_init"),
                  !.thread = IF ~ok /\ AssertFailed(usb) THEN "panic"
                             ELSE AfterTudInit(usb)]
    /\ UNCHANGED driver

tuh_init ==
    /\ usb.thread = "tuh_init"
    /\ \E ok \in BOOLEAN :
        usb' = [usb EXCEPT
                  !.tuh = IF ok THEN "ok" ELSE "failed",
                  !.calls = Called(usb, "tuh_init"),
                  !.thread = IF ~ok /\ AssertFailed(usb) THEN "panic"
                             ELSE LoopTop(usb)]
    /\ UNCHANGED driver

tud_task ==
    /\ usb.thread = "tud_task"
    /\ usb' = [usb EXCEPT
                  !.tud_tasks = Counted(@),
                  !.calls = Called(usb, "tud_task"),
                  !.thread = IF usb.host THEN "tuh_task" ELSE LoopTop(usb)]
    /\ UNCHANGED driver

tuh_task ==
    /\ usb.thread = "tuh_task"
    /\ usb' = [usb EXCEPT
                  !.tuh_tasks = Counted(@),
                  !.calls = Called(usb, "tuh_task"),
                  !.thread = LoopTop(usb)]
    /\ UNCHANGED driver

(***************************************************************************)
(* Specifications                                                          *)
(***************************************************************************)
NoPrev == [fn |-> "none", pos |-> Zero32, len |-> Zero32, val |-> 0, ret |-> 0,
           check |-> 0]

InitWith(cfgs, frames, script) ==
    /\ board \in cfgs
    /\ params = NoParams
    /\ gpio = NoGpio
    /\ mtd = NoMtd
    /\ max_frame \in frames
    /\ chip_page = board.page_size
    /\ mem = <<>>
    /\ plan = script
    /\ pc = "idle"
    /\ call = NoCall
    /\ st = NoFrame
    /\ wr = NoFrame
    /\ rd = NoFrame
    /\ txn = NoTxn
    /\ bus = FreeBus
    /\ ret = 0
    /\ buf = <<>>
    /\ prev = NoPrev
    /\ mem0 = <<>>
    /\ cur = 1

\* the device of the default configuration
DefaultDevice == [size |-> 128, page |-> 4]
\* every device of the table with max_polls = MaxPollsCfg and the default
\* device with a write-protect line, in both builds
Init ==
    /\ parked = NoThread
    /\ usb = NoUsb
    /\ InitWith({MkParams(d, MaxPollsCfg) : d \in DeviceTable}
                    \cup {WithPin(MkParams(DefaultDevice, MaxPollsCfg), pin) :
                            pin \in WpPins},
                {0, FrameBytes}, "init")

Next ==
    \/ Call_init
    \/ Call_mtd_init
    \/ Call_mtd_write_page
    \/ Call_mtd_erase
    \/ Call_mtd_power
    \/ Call_enable_write_protect
    \/ Call_disable_write_protect
    \/ Call_read_byte
    \/ Call_read
    \/ Call_write_byte
    \/ Call_write
    \/ Call_set
    \/ Call_clear
    \/ Call_erase
    \/ ReadBack
    \/ i2c_write_regs
    \/ i2c_read_regs
    \/ _write_page_return
    \/ _read_return
    \/ xtimer_usleep
    \/ Return

Spec == Init /\ [][Next]_vars

\* the poll loop for the values of max_polls at both ends of the 8-bit field
\* on a device of two pages, in the build without a frame limit
PollDevice == [size |-> 8, page |-> 4]
InitPoll ==
    /\ parked = NoThread
    /\ usb = NoUsb
    /\ InitWith({MkParams(PollDevice, m) : m \in (0..MaxPollsCfg) \cup {255}},
                {0}, "init")

SpecPoll == InitPoll /\ [][Next]_vars

\* two threads use one handle: the first initialises it, the second is
\* about to call an operation
SecondThread == [plan |-> "op", pc |-> "idle", call |-> NoCall,
                 st |-> NoFrame, wr |-> NoFrame, rd |-> NoFrame,
                 txn |-> NoTxn, bus |-> FreeBus, ret |-> 0, buf |-> <<>>,
                 prev |-> NoPrev, mem0 |-> <<>>]
InitTwo ==
    /\ parked = SecondThread
    /\ usb = NoUsb
    /\ InitWith({MkParams(PollDevice, MaxPollsCfg)}, {0}, "init")
\* the operations of the driver, without the adapter
NextTwo ==
    \/ Call_init
    \/ Call_enable_write_protect
    \/ Call_disable_write_protect
    \/ Call_read_byte
    \/ Call_read
    \/ Call_write_byte
    \/ Call_write
    \/ Call_set
    \/ Call_clear
    \/ Call_erase
    \/ ReadBack
    \/ i2c_write_regs
    \/ i2c_read_regs
    \/ _write_page_return
    \/ _read_return
    \/ xtimer_usleep
    \/ Return
    \/ Switch

SpecTwo == InitTwo /\ [][NextTwo]_vars

\* the predefined devices: the board's parameters are ST25DVXXX_PARAMS with
\* the constants of the device, the chip has the page size of the device
DevPositions ==
    {Zero32, U32(5), U32(250), U32(256), U32(2047), U32(65530), U32(65536)}
    \cup (IF Capacity > 0 THEN {U32(Capacity - 1)} ELSE {})
DevLengths == {U32(1), U32(MaxLen)}
DevFillLengths == {U32(6), U32(ST25DVXXX_SET_BUF_SIZE + MaxLen)}
Dev_read_byte == FirstCall /\ \E pos \in DevPositions : st25dvxxx_read_byte(pos)
Dev_read == FirstCall /\ \E pos \in DevPositions, len \in DevLengths :
                           st25dvxxx_read(pos, len)
Dev_write_byte == FirstCall /\ \E pos \in DevPositions, b \in FillBytes :
                                 st25dvxxx_write_byte(pos, b)
Dev_write == FirstCall /\ \E pos \in DevPositions, len \in DevLengths,
                               d \in DataSeeds :
                            st25dvxxx_write(pos, d, len)
Dev_set == FirstCall /\ \E pos \in DevPositions, len \in DevFillLengths,
                             b \in FillBytes :
                          st25dvxxx_set("set", pos, b, len)

InitDev ==
    /\ \E d \in PredefinedDevices :
        /\ board = MkParams(d, MAX_POLLS(d))
        /\ chip_page = d.page
    /\ params = NoParams
    /\ gpio = NoGpio
    /\ mtd = NoMtd
    /\ max_frame = 0
    /\ mem = <<>>
    /\ plan = "init"
    /\ pc = "idle"
    /\ call = NoCall
    /\ st = NoFrame
    /\ wr = NoFrame
    /\ rd = NoFrame
    /\ txn = NoTxn
    /\ bus = FreeBus
    /\ ret = 0
    /\ buf = <<>>
    /\ prev = NoPrev
    /\ mem0 = <<>>
    /\ cur = 1
    /\ parked = NoThread
    /\ usb = NoUsb
NextDev ==
    \/ Call_init
    \/ Dev_read_byte
    \/ Dev_read
    \/ Dev_write_byte
    \/ Dev_write
    \/ Dev_set
    \/ Call_erase
    \/ i2c_write_regs
    \/ i2c_read_regs
    \/ _write_page_return
    \/ _read_return
    \/ xtimer_usleep
    \/ Return

SpecDev == InitDev /\ [][NextDev]_vars

\* the thread shim in every build, next to a driver that is not called
InitUsb ==
    /\ parked = NoThread
    /\ usb \in {UsbBuild(d, h, n) : d \in BOOLEAN, h \in BOOLEAN,
                                    n \in BOOLEAN}
    /\ InitWith({MkParams(DefaultDevice, MaxPollsCfg)}, {0}, "init")
NextUsb ==
    \/ tinyusb_hw_init
    \/ thread_create
    \/ tinyusb_setup_return
    \/ tud_init
    \/ tuh_init
    \/ tud_task
    \/ tuh_task

SpecUsb == InitUsb /\ [][NextUsb]_vars

(***************************************************************************)
(* Properties                                                              *)
(***************************************************************************)
\* pos + len <= capacity as numbers, without the 32-bit wrap
MathInRange(pos, len) ==
    /\ ~Gt32(pos, DEV_EEPROM_SIZE)
    /\ ~Gt32(len, DEV_EEPROM_SIZE)
    /\ Val32(pos) + Val32(len) <= Capacity
InFlight == pc \in {"xfer", "sleep", "ret"}
CallOver == pc \in {"done", "idle"}

\* C1: every write transaction of an in-range write, write_byte, set, clear
\* or erase covers bytes of one page only: its first and its last byte have
\* the same floor(address / page_size).
C1_WriteWithinPage ==
    (InFlight /\ txn.kind = "w" /\ call.fn \in Writers
        /\ MathInRange(call.pos, call.len))
    => /\ txn.len >= 1
       /\ Val32(txn.pos) \div DEV_PAGE_SIZE
            = (Val32(txn.pos) + txn.len - 1) \div DEV_PAGE_SIZE
       /\ txn.reg \div DEV_PAGE_SIZE
            = (txn.reg + txn.len - 1) \div DEV_PAGE_SIZE

\* an unaligned multi-page write is at its second chunk
C1_Witness ==
    /\ pc = "ret"
    /\ call.fn = "write"
    /\ txn.kind = "w"
    /\ txn.seq = 2
    /\ txn.check = ST25DVXXX_OK
    /\ MathInRange(call.pos, call.len)
    /\ Val32(call.pos) % DEV_PAGE_SIZE # 0

\* C2: a read, write, set or clear whose pos + len exceeds the capacity as a
\* number (sums of 2^32 or more included), and a read_byte or write_byte
\* with pos >= capacity, returns -ERANGE without i2c_acquire, i2c_release
\* or a bus transaction.
C2_OutOfRangeRefused ==
    LET beyond ==
            \/ /\ call.fn \in {"read", "write", "set", "clear"}
               /\ ~MathInRange(call.pos, call.len)
            \/ /\ call.fn \in {"read_byte", "write_byte"}
               /\ ~Lt32(call.pos, DEV_EEPROM_SIZE)
    IN  beyond => /\ CallOver
                  /\ ret = -ERANGE
                  /\ bus.acquires = 0
                  /\ bus.releases = 0
                  /\ ~bus.touched

\* C3: with max_polls >= 1, a transaction answered by k < max_polls NoAcks
\* and then by success is not given up before the success and returns
\* success after exactly k + 1 attempts.
C3_PollRetrySuccess ==
    (txn.kind # "none" /\ DEV_MAX_POLLS >= 1)
    => /\ (txn.done /\ txn.last = -ENXIO) => txn.nacks >= DEV_MAX_POLLS
       /\ (txn.done /\ txn.last = ST25DVXXX_OK)
          => /\ txn.check = ST25DVXXX_OK
             /\ txn.att = txn.nacks + 1
             /\ txn.nacks < DEV_MAX_POLLS
       /\ (~txn.done /\ txn.att >= 1) => txn.last = -ENXIO

\* the last attempt the budget allows succeeds
C3_Witness ==
    /\ pc = "ret"
    /\ DEV_MAX_POLLS >= 2
    /\ txn.last = ST25DVXXX_OK
    /\ txn.check = ST25DVXXX_OK
    /\ txn.nacks = DEV_MAX_POLLS - 1
    /\ txn.att = DEV_MAX_POLLS

\* C4: against a bus that always answers NoAck one transaction makes at most
\* max_polls attempts (at most one when max_polls is 0), exactly max_polls
\* when max_polls >= 1, and returns -ENXIO.
C4_PollBudget ==
    txn.kind # "none"
    => /\ txn.att <= (IF DEV_MAX_POLLS = 0 THEN 1 ELSE DEV_MAX_POLLS)
       /\ (txn.done /\ txn.last = -ENXIO)
          => /\ txn.check = -ENXIO
             /\ DEV_MAX_POLLS >= 1 => txn.att = DEV_MAX_POLLS

\* C5: an answer other than success and NoAck ends the transaction at once:
\* no further attempt, no further sleep, the status is returned unchanged.
C5_OnlyNoAckRetried ==
    (txn.kind # "none" /\ txn.att >= 1
        /\ txn.last \notin {ST25DVXXX_OK, -ENXIO})
    => /\ txn.done
       /\ pc \in {"ret", "done", "idle"}
       /\ txn.check = txn.last
       /\ txn.att = txn.nacks + 1
       /\ txn.sleeps = txn.nacks

\* a timeout on the second attempt
C5_Witness ==
    /\ pc = "ret"
    /\ txn.last = -ETIMEDOUT
    /\ txn.check = -ETIMEDOUT
    /\ txn.nacks = 1
    /\ txn.att = 2

\* the bytes st25dvxxx_write(pos, data, len) was given
WrittenData(c) == [i \in 1..Val32(c.len) |-> (c.val + i - 1) % Byte]

\* C6: on a chip that wraps inside the page and is never busy beyond the
\* poll budget, write(pos, data, len) and then read(pos, len) both return
\* success and the read yields data, for every in-range pos and len.
C6_RoundTrip ==
    (pc = "done" /\ plan = "readback" /\ prev.fn = "write"
        /\ MathInRange(prev.pos, prev.len))
    => /\ prev.check = ST25DVXXX_OK => prev.ret = ST25DVXXX_OK
       /\ txn.check = ST25DVXXX_OK => ret = ST25DVXXX_OK
       /\ (prev.ret = ST25DVXXX_OK /\ ret = ST25DVXXX_OK)
          => buf = WrittenData(prev)

\* an unaligned write over several pages and two chip-address blocks of the
\* 2048-byte device was read back
C6_Witness ==
    /\ pc = "done"
    /\ plan = "readback"
    /\ prev.fn = "write"
    /\ Capacity = 2048
    /\ prev.pos = U32(250)
    /\ Val32(prev.len) >= MaxLen
    /\ prev.ret = ST25DVXXX_OK
    /\ ret = ST25DVXXX_OK
    /\ Len(buf) = Val32(prev.len)
    /\ buf = WrittenData(prev)

\* the operation passed its bounds check with work to do
Passed(c) ==
    IF c.fn \in {"read_byte", "write_byte"}
    THEN ~ByteOutOfRange(c.pos)
    ELSE c.fn # "none" /\ ~OutOfRange(c.pos, c.len) /\ c.len # Zero32

\* C7: a call that passed the bounds check with non-zero length acquires the
\* bus once before its first transaction and releases it once after its
\* last, on every path; nothing happens on the bus outside the pair and
\* the bus is not held when the call has returned.
C7_BusBalanced ==
    Passed(call)
    => /\ bus.acquires = 1
       /\ ~bus.outside
       /\ InFlight => (bus.held = 1 /\ bus.releases = 0)
       /\ CallOver => (bus.held = 0 /\ bus.releases = 1 /\ bus.touched)

\* a fill gave up on its second chunk after the poll budget
C7_Witness ==
    /\ pc = "done"
    /\ call.fn = "set"
    /\ txn.seq >= 2
    /\ txn.check = -ENXIO
    /\ ret = -ENXIO
    /\ bus.acquires = 1
    /\ bus.releases = 1
    /\ bus.held = 0

\* C8: read, write, set and clear with len = 0 and pos <= capacity, and
\* erase on a device of capacity 0, return ST25DVXXX_OK without acquire,
\* release, bus transaction or sleep and leave the chip memory unchanged.
C8_ZeroLengthNoop ==
    (call.fn \in {"read", "write", "set", "clear", "erase"}
        /\ call.len = Zero32 /\ ~Gt32(call.pos, DEV_EEPROM_SIZE))
    => /\ CallOver
       /\ ret = ST25DVXXX_OK
       /\ bus.acquires = 0
       /\ bus.releases = 0
       /\ ~bus.touched
       /\ ~bus.slept
       /\ mem = mem0

\* a write of no bytes at the end of the memory returned
C8_Witness ==
    /\ pc = "done"
    /\ call.fn = "write"
    /\ call.len = Zero32
    /\ call.pos = DEV_EEPROM_SIZE
    /\ Capacity > 0
    /\ ret = ST25DVXXX_OK

\* number of bytes the chunks before the current one covered
BytesBefore == Val32(Sub32(txn.pos, call.pos))
\* linear addresses of those bytes
RangeBefore == {Val32(Add32(call.pos, U32(i))) : i \in 0..(BytesBefore - 1)}

C9_State ==
    (pc = "done" /\ call.fn \in Writers /\ txn.kind = "w"
        /\ txn.check # ST25DVXXX_OK)
    => /\ ret = txn.check
       /\ bus.held = 0
       /\ bus.releases = 1
       /\ \A i \in 0..(BytesBefore - 1) :
            MemAt(mem, Val32(Add32(call.pos, U32(i)))) = DataByte(call, i)
       /\ \A a \in (DOMAIN mem) \cup (DOMAIN mem0) :
            a \notin RangeBefore => MemAt(mem, a) = MemAt(mem0, a)

C9_Step ==
    (pc = "ret" /\ txn.kind = "w" /\ txn.check # ST25DVXXX_OK)
    => (pc' = "done" /\ txn' = txn /\ mem' = mem)

\* C9: a multi-chunk write or fill stops at the first failing chunk: no
\* later chunk is attempted, the operation returns that chunk's status, the
\* bus is released, and exactly the bytes before the failing chunk carry
\* the new data.
C9_StopAtFirstFailure == [](C9_State) /\ [][C9_Step]_vars

\* an unaligned fill failed on its third chunk
C9_Witness ==
    /\ pc = "done"
    /\ call.fn = "set"
    /\ txn.seq >= 3
    /\ txn.check = -ENXIO
    /\ ret = -ENXIO
    /\ Val32(call.pos) % DEV_PAGE_SIZE # 0
    /\ BytesBefore > DEV_PAGE_SIZE

\* the translation as the design states it
SpecAddr(pos) ==
    IF Capacity > 2048
    THEN [ dev_addr |-> BitOr(DEV_I2C_ADDR, pos[1] % 256),
           reg      |-> pos[2],
           flags    |-> I2C_REG16 ]
    ELSE [ dev_addr |-> BitOr(DEV_I2C_ADDR, (pos[2] \div 256) % 256),
           reg      |-> pos[2] % 256,
           flags    |-> 0 ]

\* C10: with capacity > 2048 a transaction uses the 16-bit address flag,
\* chip address base | ((pos >> 16) & 0xFF) and address pos & 0xFFFF; with
\* capacity <= 2048 no flag, base | ((pos >> 8) & 0xFF) and pos & 0xFF;
\* _read and _write_page translate alike.
C10_AddressTranslation ==
    /\ txn.kind # "none"
       => [dev_addr |-> txn.dev_addr, reg |-> txn.reg, flags |-> txn.flags]
            = SpecAddr(txn.pos)
    /\ txn.kind # "none" => _read_addr(txn.pos) = _write_page_addr(txn.pos)

\* a write into the last block of the 2048-byte device
C10_Witness ==
    /\ InFlight
    /\ txn.kind = "w"
    /\ Capacity = 2048
    /\ txn.flags = 0
    /\ txn.dev_addr = 87
    /\ txn.reg = 255

\* C11: when no chunk of st25dvxxx_erase fails terminally it returns
\* ST25DVXXX_OK and every byte of [0, capacity) is ST25DVXXX_CLEAR_BYTE,
\* whatever the chip held; st25dvxxx_read(0, capacity) then yields capacity
\* bytes of 0x00.
C11_EraseClears ==
    /\ (pc = "done" /\ call.fn = "erase")
       => /\ call.pos = Zero32
          /\ call.len = DEV_EEPROM_SIZE
          /\ call.val = 0
          /\ txn.check = ST25DVXXX_OK => ret = ST25DVXXX_OK
          /\ ret = ST25DVXXX_OK
             => \A a \in 0..(Capacity - 1) : MemAt(mem, a) = 0
    /\ (pc = "done" /\ plan = "readback" /\ prev.fn = "erase"
          /\ ret = ST25DVXXX_OK)
       => buf = [i \in 1..Capacity |-> 0]

\* the 256-byte device was erased and read back in full
C11_Witness ==
    /\ pc = "done"
    /\ plan = "readback"
    /\ prev.fn = "erase"
    /\ prev.ret = ST25DVXXX_OK
    /\ Capacity = 256
    /\ InitByte(255) # 0
    /\ ret = ST25DVXXX_OK
    /\ Len(buf) = 256
    /\ \A i \in 1..256 : buf[i] = 0

\* C12: without a write-protect pin (GPIO_UNDEF) enable_write_protect and
\* disable_write_protect return -ENOTSUP and make no GPIO call; with a pin
\* they return ST25DVXXX_OK with one GPIO call, and after every sequence of
\* calls the line is high if the last call was enable and low if it was
\* disable; neither call touches the bus.
C12_WriteProtect ==
    /\ (pc = "done"
          /\ call.fn \in {"enable_write_protect", "disable_write_protect"})
       => /\ bus.acquires = 0
          /\ bus.releases = 0
          /\ ~bus.touched
          /\ ~bus.slept
          /\ mem = mem0
          /\ IF DEV_PIN_WP = GPIO_UNDEF
             THEN ret = -ENOTSUP /\ gpio.calls = 0
             ELSE ret = ST25DVXXX_OK /\ gpio.calls = 1
    /\ DEV_PIN_WP = GPIO_UNDEF
       => (gpio.level = "floating" /\ gpio.mode = "none")
    /\ DEV_PIN_WP # GPIO_UNDEF
       => /\ gpio.last = "enable" => gpio.level = "high"
          /\ gpio.last = "disable" => gpio.level = "low"

\* write protection was enabled on the board that wires the line
C12_Witness ==
    /\ pc = "done"
    /\ plan = "wp"
    /\ call.fn = "enable_write_protect"
    /\ DEV_PIN_WP \in WpPins
    /\ ret = ST25DVXXX_OK
    /\ gpio.level = "high"

\* C13: st25dvxxx_init returns -EINVAL for a NULL handle or NULL parameters
\* and then makes no GPIO call, no i2c_acquire and leaves the handle as it
\* was; otherwise the handle holds the parameters, a configured
\* write-protect pin is an output and low, the bus was acquired and
\* released once without a transaction, and the result is ST25DVXXX_OK.
C13_Init ==
    (pc = "done" /\ call.fn = "init")
    => IF call.dev = "NULL" \/ call.params = "NULL"
       THEN /\ ret = -EINVAL
            /\ gpio = NoGpio
            /\ bus.acquires = 0
            /\ bus.releases = 0
            /\ params = NoParams
       ELSE /\ ret = ST25DVXXX_OK
            /\ params = board
            /\ board.pin_wp # GPIO_UNDEF
               => /\ gpio.mode = "out"
                  /\ gpio.level = "low"
                  /\ gpio.calls = 2
            /\ board.pin_wp = GPIO_UNDEF => gpio = NoGpio
            /\ bus.acquires = 1
            /\ bus.releases = 1
            /\ bus.held = 0
            /\ ~bus.touched
            /\ ~bus.slept

\* the handle of the board with a write-protect line was initialised
C13_Witness ==
    /\ pc = "done"
    /\ call.fn = "init"
    /\ call.dev = "valid"
    /\ call.params = "valid"
    /\ board.pin_wp \in WpPins
    /\ params = board
    /\ gpio.level = "low"
    /\ ret = ST25DVXXX_OK

\* the parked thread is between the first bus call and the return of its
\* last transaction
ParkedInFlight == parked.pc \in {"xfer", "sleep", "ret"}

\* C14: with two threads on one bus and i2c_acquire a mutex, the
\* transactions and poll sleeps of one operation are not interleaved with
\* a transaction of the other: while one thread is between its first and
\* its last transaction it holds the bus and the other thread is at no
\* bus call, in no sleep and holds nothing.
C14_Serialised ==
    parked.pc # "none"
    => /\ ~(InFlight /\ ParkedInFlight)
       /\ bus.held \in {0, 1}
       /\ InFlight => (bus.held = 1 /\ bus.acquires = 1 /\ ~bus.outside)
       /\ ParkedInFlight
          => /\ bus.held = 1
             /\ parked.bus.acquires = 1
             /\ ~parked.bus.outside
             /\ bus.acquires = 0
             /\ ~bus.touched
             /\ ~bus.slept

\* the first thread sleeps in the poll loop of the second chunk of a fill
\* while the second thread is about to call an operation
C14_Witness ==
    /\ cur = 2
    /\ pc = "idle"
    /\ plan = "op"
    /\ parked.pc = "sleep"
    /\ parked.call.fn = "set"
    /\ parked.txn.seq = 2
    /\ bus.held = 1

\* C15: for every page, offset and size the one write transaction of the
\* adapter's write_page starts at page * page_size + offset and stays
\* inside a page (its length is at most page_size - offset), and on success
\* the return value is the number of bytes of the transaction.
C15_MtdWritePageClamped ==
    (call.fn = "mtd_write_page" /\ txn.kind = "w")
    => /\ txn.seq = 1
       /\ txn.pos = Add32(Mul32(call.pos, DEV_PAGE_SIZE), call.offset)
       /\ Val32(call.offset) <= DEV_PAGE_SIZE
          => txn.len <= DEV_PAGE_SIZE - Val32(call.offset)
       /\ txn.len >= 1
          => Val32(txn.pos) \div DEV_PAGE_SIZE
               = (Val32(txn.pos) + txn.len - 1) \div DEV_PAGE_SIZE
       /\ (pc = "done" /\ txn.check = ST25DVXXX_OK) => ret = txn.len

\* the smaller of two numbers
Least(a, b) == IF a < b THEN a ELSE b

C16_State ==
    (call.fn = "write" /\ txn.kind = "w" /\ MathInRange(call.pos, call.len))
    => /\ txn.seq = 1 => txn.pos = call.pos
       /\ txn.off = BytesBefore
       /\ txn.len >= 1
       /\ txn.len = Least(Val32(call.len) - BytesBefore,
                          DEV_PAGE_SIZE - (Val32(txn.pos) % DEV_PAGE_SIZE))
       /\ (pc = "ret" /\ txn.check = ST25DVXXX_OK)
          => \A i \in 0..(txn.len - 1) :
                MemAt(mem, Val32(txn.pos) + i)
                    = WrittenData(call)[txn.off + i + 1]
       /\ (pc = "done" /\ ret = ST25DVXXX_OK)
          => Val32(txn.pos) + txn.len = Val32(call.pos) + Val32(call.len)
       /\ (Capacity = 256 /\ DEV_PAGE_SIZE = 8 /\ call.pos = U32(5)
             /\ call.len = U32(6))
          => \/ txn.seq = 1 /\ txn.pos = U32(5) /\ txn.len = 3
             \/ txn.seq = 2 /\ txn.pos = U32(8) /\ txn.len = 3

C16_Step ==
    (call.fn = "write" /\ txn.kind = "w" /\ txn'.kind = "w"
        /\ txn'.seq # txn.seq /\ MathInRange(call.pos, call.len))
    => /\ txn.check = ST25DVXXX_OK
       /\ txn.done
       /\ txn'.seq = txn.seq + 1
       /\ Val32(txn'.pos) = Val32(txn.pos) + txn.len
       /\ txn'.off = txn.off + txn.len

\* C16: the write transactions of an in-range st25dvxxx_write follow each
\* other in ascending order without gap or overlap, each after the success
\* of the one before, and cover [pos, pos + len); each has the length
\* min(remaining length, page_size - (offset mod page_size)) and carries
\* the matching slice of data; capacity 256, page size 8, write(5, 6 bytes)
\* gives the chunks (5, 3) and (8, 3).
C16_ChunkDecomposition == [](C16_State) /\ [][C16_Step]_vars

\* the write of 6 bytes at 5 on the 256-byte device ended with (8, 3)
C16_Witness ==
    /\ pc = "done"
    /\ call.fn = "write"
    /\ Capacity = 256
    /\ DEV_PAGE_SIZE = 8
    /\ call.pos = U32(5)
    /\ call.len = U32(6)
    /\ ret = ST25DVXXX_OK
    /\ txn.seq = 2
    /\ txn.pos = U32(8)
    /\ txn.len = 3

\* C17: st25dvxxx_set hands _write consecutive pieces of min(32, remaining
\* length) bytes, so no write transaction carries more than
\* min(32, page_size) bytes; after a fill without failure every byte of
\* [pos, pos + len) is val and every other byte of the chip is unchanged.
C17_FillPieces ==
    (call.fn = "set" /\ MathInRange(call.pos, call.len))
    => /\ (InFlight /\ txn.kind = "w")
          => /\ txn.len <= Least(ST25DVXXX_SET_BUF_SIZE, DEV_PAGE_SIZE)
             /\ Val32(st.clen) = Least(ST25DVXXX_SET_BUF_SIZE, Val32(st.len))
             /\ Val32(st.pos) + Val32(st.len)
                  = Val32(call.pos) + Val32(call.len)
             /\ Val32(st.pos) <= Val32(txn.pos)
             /\ Val32(txn.pos) + txn.len <= Val32(st.pos) + Val32(st.clen)
       /\ (pc = "done" /\ ret = ST25DVXXX_OK)
          => /\ \A i \in 0..(Val32(call.len) - 1) :
                    MemAt(mem, Val32(call.pos) + i) = call.val
             /\ \A a \in (DOMAIN mem) \cup (DOMAIN mem0) :
                    (a < Val32(call.pos)
                        \/ a >= Val32(call.pos) + Val32(call.len))
                    => MemAt(mem, a) = MemAt(mem0, a)

\* a fill longer than the scratch buffer on a device whose page is larger
\* than the buffer: a transaction of 32 bytes, then the rest
C17_Witness ==
    /\ pc = "done"
    /\ call.fn = "set"
    /\ DEV_PAGE_SIZE > ST25DVXXX_SET_BUF_SIZE
    /\ call.pos = Zero32
    /\ Val32(call.len) > ST25DVXXX_SET_BUF_SIZE
    /\ ret = ST25DVXXX_OK
    /\ txn.seq = 2
    /\ txn.pos = U32(ST25DVXXX_SET_BUF_SIZE)
    /\ MemAt(mem, 0) = call.val
    /\ MemAt(mem, Val32(call.len) - 1) = call.val

\* C18: when a read transaction of st25dvxxx_read ends with a failure,
\* st25dvxxx_read returns that status, in the build with a frame limit and
\* in the build without.
C18_ReadStatusPropagated ==
    (pc = "done" /\ call.fn = "read" /\ txn.kind = "r" /\ txn.done
        /\ txn.check # ST25DVXXX_OK)
    => ret = txn.check

\* C19: every write transaction of an operation starts with the budget
\* max_polls (max_polls >= 1): the polls left are max_polls less the NoAcks
\* of this transaction alone, whatever earlier chunks consumed, and a
\* transaction makes at most max_polls attempts, so n chunks make at most
\* n * max_polls.
C19_BudgetPerTransaction ==
    (txn.kind = "w" /\ call.fn \in Writers /\ DEV_MAX_POLLS >= 1)
    => /\ txn.polls = DEV_MAX_POLLS - txn.nacks
       /\ txn.att <= DEV_MAX_POLLS
       /\ txn.att = 0 => txn.polls = DEV_MAX_POLLS

\* after NoAcks in an earlier chunk a later chunk succeeded on the last
\* attempt of a full budget
C19_Witness ==
    /\ pc = "ret"
    /\ call.fn \in {"write", "set"}
    /\ txn.kind = "w"
    /\ txn.seq >= 2
    /\ txn.earlier
    /\ DEV_MAX_POLLS >= 2
    /\ txn.att = DEV_MAX_POLLS
    /\ txn.check = ST25DVXXX_OK

\* C20: in one transaction every sleep lies between two attempts: none
\* before the first attempt, one after each NoAck that is followed by
\* another attempt, none after the attempt that ends the transaction
\* (success, another error, or the last NoAck), so a attempts make a - 1
\* sleeps; the bus is held during every sleep.
C20_SleepPlacement ==
    txn.kind # "none"
    => /\ pc = "xfer" => txn.sleeps = txn.att
       /\ pc = "sleep"
          => /\ txn.last = -ENXIO
             /\ ~txn.done
             /\ txn.att >= 1
             /\ txn.sleeps = txn.att - 1
             /\ bus.held = 1
       /\ txn.done => txn.sleeps = txn.att - 1
       /\ bus.slept => ~bus.outside

\* the budget was used up: max_polls attempts and one sleep less
C20_Witness ==
    /\ pc = "ret"
    /\ txn.done
    /\ txn.last = -ENXIO
    /\ DEV_MAX_POLLS >= 2
    /\ txn.att = DEV_MAX_POLLS
    /\ txn.sleeps = DEV_MAX_POLLS - 1
    /\ bus.held = 1

\* C21: for every predefined device and every in-range (pos, len), every
\* chunk that st25dvxxx_write, st25dvxxx_set or st25dvxxx_erase hands to the
\* bus has a length of at least 1, and a chunk that succeeded leaves a
\* strictly smaller remaining length, so the loop ends after at most len
\* chunks.
C21_ChunksMakeProgress ==
    (InFlight /\ txn.kind = "w" /\ call.fn \in {"write", "set", "erase"}
        /\ MathInRange(call.pos, call.len))
    => /\ txn.len >= 1
       /\ txn.seq <= Val32(call.len)

\* C22: for every predefined device, the handle initialised from the
\* parameters the board builds out of the device's constants holds the
\* device's page size and 1 + write delay / poll delay as its poll count.
C22_ConfigurationFidelity ==
    params # NoParams
    => \A d \in PredefinedDevices :
          board = MkParams(d, MAX_POLLS(d))
          => /\ DEV_PAGE_SIZE = d.page
             /\ DEV_MAX_POLLS = MAX_POLLS(d)

\* C23: with the base address 0x50 and every predefined capacity, the
\* chip address and the transaction address that _read and _write_page
\* compute for an offset pos < capacity give pos back as
\* (chip address - base) * 2^w + transaction address, w = 16 above 2048
\* bytes and 8 otherwise, and the chip address is at most 0x7F; this holds
\* for every offset of the device and for the transactions issued.
C23_Recovers(p, a) ==
    LET block == IF Capacity > AddrModeLimit THEN H ELSE Byte
    IN  /\ p = (a.dev_addr - ST25DVXXX_DEF_DEV_ADDR) * block + a.reg
        /\ a.reg < block
        /\ a.dev_addr >= ST25DVXXX_DEF_DEV_ADDR
        /\ a.dev_addr <= 127
C23_TranslationLossless ==
    /\ (plan = "op" /\ pc = "idle")
       => \A p \in 0..(Capacity - 1) :
             /\ C23_Recovers(p, _read_addr(U32(p)))
             /\ C23_Recovers(p, _write_page_addr(U32(p)))
    /\ (txn.kind # "none" /\ Lt32(txn.pos, DEV_EEPROM_SIZE))
       => C23_Recovers(Val32(txn.pos), txn)

\* transactions in the second block of a device of each addressing mode
C23_Witness ==
    /\ pc = "xfer"
    /\ txn.kind = "r"
    /\ txn.dev_addr = ST25DVXXX_DEF_DEV_ADDR + 1
    /\ txn.flags = I2C_REG16
    /\ Lt32(txn.pos, DEV_EEPROM_SIZE)
C23_WitnessByteMode ==
    /\ pc = "xfer"
    /\ txn.kind = "w"
    /\ txn.dev_addr = ST25DVXXX_DEF_DEV_ADDR + 7
    /\ txn.flags = 0
    /\ Lt32(txn.pos, DEV_EEPROM_SIZE)

\* C24: every bus read transaction of an in-range st25dvxxx_read stays
\* inside the addressing block its chip address selects: transaction
\* address + length <= 256 with 8-bit and <= 65536 with 16-bit transaction
\* addresses.
C24_ReadOfInRange ==
    /\ InFlight
    /\ call.fn = "read"
    /\ txn.kind = "r"
    /\ MathInRange(call.pos, call.len)
C24_ReadWithinBlock ==
    C24_ReadOfInRange
    => txn.reg + txn.len <= (IF txn.flags = I2C_REG16 THEN H ELSE Byte)

\* C24, amended: every bus read transaction of an in-range st25dvxxx_read
\* starts at the chip address and transaction address of its first byte,
\* has a length of at least 1 and covers bytes of the requested range only,
\* which ends inside the device; it may run past the end of its addressing
\* block.
C24_ReadWithinDevice ==
    C24_ReadOfInRange
    => /\ C23_Recovers(Val32(txn.pos), txn)
       /\ txn.len >= 1
       /\ Val32(call.pos) <= Val32(txn.pos)
       /\ Val32(txn.pos) + txn.len <= Val32(call.pos) + Val32(call.len)
       /\ Val32(txn.pos) + txn.len <= Capacity

\* a read transaction runs from one 256-byte block into the next
C24_Witness ==
    /\ C24_ReadOfInRange
    /\ pc = "ret"
    /\ txn.check = ST25DVXXX_OK
    /\ txn.flags = 0
    /\ txn.reg + txn.len > Byte

\* C25: once st25dvxxx_init has filled the handle no public operation
\* changes its configuration; st25dvxxx_read and st25dvxxx_read_byte issue
\* read transactions only and leave the chip memory and the write-protect
\* line as they are; write_byte, write, set, clear and erase issue write
\* transactions only and leave the write-protect line as it is; a call
\* that returns -ERANGE has changed neither the chip memory nor the owner
\* of the bus nor the write-protect line.
C25_Readers == {"read", "read_byte"}
C25_State ==
    /\ call.fn \in C25_Readers
       => /\ txn.kind \in {"none", "r"}
          /\ mem = mem0
          /\ gpio.calls = 0
    /\ call.fn \in Writers
       => /\ txn.kind \in {"none", "w"}
          /\ gpio.calls = 0
    /\ (pc = "done" /\ ret = -ERANGE)
       => /\ mem = mem0
          /\ bus.acquires = 0
          /\ bus.releases = 0
          /\ ~bus.touched
          /\ gpio.calls = 0
C25_Step ==
    /\ params # NoParams => params' = params
    /\ (call.fn \in C25_Readers \/ call'.fn \in C25_Readers)
       => /\ mem' = mem
          /\ gpio'.level = gpio.level
          /\ gpio'.mode = gpio.mode
    /\ (call.fn \in Writers \/ call'.fn \in Writers)
       => /\ gpio'.level = gpio.level
          /\ gpio'.mode = gpio.mode
    /\ (pc' = "done" /\ ret' = -ERANGE)
       => /\ mem' = mem
          /\ bus'.held = bus.held
          /\ gpio'.level = gpio.level
C25_FrameConditions == [](C25_State) /\ [][C25_Step]_vars

\* a write on a board with a write-protect line returned success, and a
\* read was refused
C25_Witness ==
    /\ pc = "done"
    /\ call.fn = "write"
    /\ ret = ST25DVXXX_OK
    /\ gpio.mode = GPIO_OUT
    /\ mem # mem0
C25_WitnessRefused ==
    /\ pc = "done"
    /\ call.fn = "read"
    /\ ret = -ERANGE

\* C26: after the adapter's init the adapter reports the page size of the
\* device, one page per sector, capacity / page size sectors and a write
\* size of 1; its erase(addr, size) returns 0 exactly when the clear of
\* [addr, addr + size) succeeded, every byte of the range being 0x00 then,
\* and a negative status otherwise, and uses no bus when addr + size
\* exceeds the capacity; its power returns -ENOTSUP and uses neither bus
\* nor GPIO.
C26_Geometry ==
    /\ mtd.page_size = chip_page
    /\ mtd.pages_per_sector = 1
    /\ mtd.sector_count = Capacity \div chip_page
    /\ mtd.write_size = 1
C26_Cleared ==
    \A a \in Val32(call.pos)..(Val32(call.pos) + Val32(call.len) - 1) :
        MemAt(mem, a) = ST25DVXXX_CLEAR_BYTE
C26_EraseResult ==
    /\ ret \in {0, -EIO}
    /\ ret = 0 <=> \/ bus.acquires = 0 /\ call.len = Zero32
                      /\ MathInRange(call.pos, call.len)
                   \/ txn.kind = "w" /\ txn.check = ST25DVXXX_OK
    /\ ret = 0 => MathInRange(call.pos, call.len) /\ C26_Cleared
C26_NoBus ==
    /\ bus.acquires = 0
    /\ bus.releases = 0
    /\ ~bus.touched
C26_AdapterInRange ==
    /\ plan = "mtd" => C26_Geometry
    /\ (pc = "done" /\ call.fn = "mtd_erase") => C26_EraseResult
    /\ (pc = "done" /\ call.fn = "mtd_power")
       => ret = -ENOTSUP /\ C26_NoBus /\ gpio.calls = 0
C26_Adapter ==
    /\ C26_AdapterInRange
    /\ (call.fn = "mtd_erase" /\ ~MathInRange(call.pos, call.len))
       => C26_NoBus /\ CallOver /\ ret < 0

\* C27: tinyusb_setup creates the thread only after tinyusb_hw_init
\* returned 0; it returns the non-zero result of tinyusb_hw_init, else the
\* negative result of thread_create, and 0 only when both succeeded.  In
\* the thread no tud_task or tuh_task is called before tud_init / tuh_init
\* of every stack the build uses has succeeded; the tasks are then called
\* in the order tud_task, tuh_task, again and again, and the thread does
\* not leave the loop.
C27_Setup ==
    /\ usb.thread # "none"
       => usb.hw_called /\ usb.hw = 0 /\ usb.tc_called /\ usb.tc >= 0
    /\ usb.tc_called => usb.hw_called /\ usb.hw = 0
    /\ usb.setup = "returned"
       => /\ usb.hw_called
          /\ usb.res = IF usb.hw # 0 THEN usb.hw
                       ELSE IF usb.tc < 0 THEN usb.tc
                       ELSE 0
          /\ usb.res = 0 <=> (usb.hw = 0 /\ usb.tc_called /\ usb.tc >= 0
                                /\ usb.thread # "none")
C27_StacksUp ==
    /\ usb.device => usb.tud = "ok"
    /\ usb.host => usb.tuh = "ok"
C27_TaskOrder ==
    \A i \in 1..(Len(usb.calls) - 1) :
        LET f == usb.calls[i]
            g == usb.calls[i + 1]
        IN  /\ f \in {"tud_task", "tuh_task"} => g \in {"tud_task", "tuh_task"}
            /\ (g = "tuh_task" /\ usb.device) => f = "tud_task"
            /\ (g = "tud_task" /\ usb.host) => f \in {"tuh_task", "tuh_init"}
            /\ (f = "tud_task" /\ usb.host) => g = "tuh_task"
C27_Thread ==
    /\ usb.tud_tasks > 0 => usb.device /\ C27_StacksUp
    /\ usb.tuh_tasks > 0 => usb.host /\ C27_StacksUp
    /\ (usb.tud_tasks > 0 \/ usb.tuh_tasks > 0)
       => usb.thread \in {"tud_task", "tuh_task"}
    /\ C27_TaskOrder
C27_ShimOrdering == C27_Setup /\ C27_Thread

\* the same for the builds in which assert(0) stops the thread
C27_ShimOrderingAsserting == usb.ndebug \/ C27_ShimOrdering

====
